---- MODULE Spec2Model ----
(***************************************************************************)
(* Model of the live session dashboard of zclipper (the poll + push        *)
(* DashboardPage component) together with the browser objects it drives:   *)
(* WebSocket instances, timers and in-flight HTTP requests.                *)
(*                                                                         *)
(* One action is one task of the UI event loop: the callback that runs,    *)
(* followed by the React re-render it causes and the effects that          *)
(* re-render flushes (Commit), up to the point where the component is      *)
(* stable again.                                                           *)
(***************************************************************************)
EXTENDS Integers, Sequences, FiniteSets, TLC

\* ---- bounds of the model ----
MaxCount == 2          \* largest clips_generated the backend reports
MaxClipId == 1         \* clip identifiers are 1..MaxClipId
MaxLen == 2            \* longest clip list kept in the view
MaxSockets == 1        \* WebSocket instances alive at once
MaxInflight == 2       \* outstanding loadData requests; outstanding health probes
MaxPending == 1        \* outstanding requests of the other kinds, together
MaxToasts == 1         \* toasts displayed at once
MaxStale == 1          \* outstanding requests of a session the page has left
MaxMetric == 1         \* largest value of a numeric field of the session view

ClipIds == 1..MaxClipId
Counts == 0..MaxCount
SockIds == 1..MaxSockets
Sessions == {"s1"}
NextSession == "s2"    \* the session the page is switched to

Kinds == {"health", "load", "loadClips", "poll", "clipsOnly", "refresh", "stop"}

\* SessionStatus projection: lifecycle status and clip count.
\* The null session view is the record whose status field is "null".
NullStatus == [status |-> "null", clips_generated |-> 0]
Snapshots == [status : {"active", "stopped"}, clips_generated : Counts]

\* A WebSocket instance: readyState, and whether the connection was ever
\* established (decides how a close() initiated by the page completes).
NoSocket == [rs |-> "NONE", est |-> FALSE]

\* Duplicate-free clip lists the backend can answer with.
RECURSIVE SeqsOver(_, _)
SeqsOver(S, n) ==
  IF n = 0 THEN {<<>>}
  ELSE LET shorter == SeqsOver(S, n - 1)
       IN shorter \cup {Append(s, x) : s \in {t \in shorter : Len(t) = n - 1}, x \in S}

IdSet(list) == {list[i] : i \in 1..Len(list)}
NoDup(list) == Cardinality(IdSet(list)) = Len(list)
BackendLists == {l \in SeqsOver(ClipIds, MaxClipId) : NoDup(l)}

\* CloseEvent values the browser can deliver.
ServerCloseEvents == {[wasClean |-> TRUE, code |-> 1000],
                      [wasClean |-> TRUE, code |-> 1001],
                      [wasClean |-> FALSE, code |-> 1006]}
AbnormalClose == [wasClean |-> FALSE, code |-> 1006]
LocalClose == [wasClean |-> TRUE, code |-> 1005]

VARIABLES
  mounted,               \* the DashboardPage instance is mounted
  sessionId,             \* useParams().sessionId
  status,                \* useState<SessionStatus | null>
  clips,                 \* useState<Clip[]>, as the list of clip_id
  isLoading,             \* useState(true)
  lastClipCount,         \* useState(0)
  wsConnected,           \* useState(false)
  wsRef,                 \* useRef<WebSocket | null>, 0 is null
  pollingRef,            \* useRef: id of the interval, 0 is null
  reconnectTimeoutRef,   \* useRef: id of the reconnect timeout, 0 is null
  connectionTimeoutRef,  \* useRef: id of the connection timeout, 0 is null
  sockets,               \* the WebSocket instances created so far
  connTimers,            \* pending connection-timeout timers (by socket)
  reconTimers,           \* pending reconnect timers (by the socket that closed)
  pollTimers,            \* active poll intervals, with the values they closed over
  inflight,              \* outstanding requests, counted by kind
  stale,                 \* outstanding requests started for an earlier sessionId
  toasts,                \* number of toasts the ToastProvider displays
  obs,                   \* what the last task did (observation of the step)
  scenario,              \* progress of the poll sequence 0, 1, 2 (monitor)
  delivered,             \* the feed delivered a clip since the clip count last
                         \* changed (monitor)
  sv,                    \* the session view with all the fields of SessionStatus
  upd,                   \* the data of the session_update handled last
  auth,                  \* localStorage's demo token entries, Date.now() and
                         \* the token getDemoToken returned last
  appPage,               \* the creator console (AppPage) and its backend
  chatPage               \* the live chat page (LiveChatPage) and its feed

vars == <<mounted, sessionId, status, clips, isLoading, lastClipCount,
          wsConnected, wsRef, pollingRef, reconnectTimeoutRef,
          connectionTimeoutRef, sockets, connTimers, reconTimers, pollTimers,
          inflight, stale, toasts, obs, scenario, delivered, sv, upd,
          auth, appPage, chatPage>>

\* The state and refs of DashboardPage with its monitors.
dashVars == <<mounted, sessionId, status, clips, isLoading, lastClipCount,
              wsConnected, wsRef, pollingRef, reconnectTimeoutRef,
              connectionTimeoutRef, sockets, connTimers, reconTimers,
              pollTimers, inflight, stale, toasts, obs, scenario, delivered>>

\* ---- the step observation ----
\* op: the task that ran; viral: showViral calls; toast: showToast calls;
\* fetch: clip-list fetches started by loadClipsOnly; polled: the poll tick
\* issued a status request; prev: clips_generated of the session view before
\* the task (-1 when the view was null); sched: reconnect timers scheduled;
\* probes: connect procedures entered; clip: the clip a push delivered;
\* unclean: the close event handled was an unclean one; code: its close code
\* (0 when the task handled no close event); cleanups: runs of
\* cleanupConnections; fetched: the list a clip-list fetch of loadClipsOnly or
\* refreshClips returned.
NoObs(op) == [op |-> op, viral |-> 0, toast |-> 0, fetch |-> 0, polled |-> FALSE,
              prev |-> -1, sched |-> 0, probes |-> 0, clip |-> 0,
              unclean |-> FALSE, applied |-> FALSE, code |-> 0, cleanups |-> 0,
              fetched |-> <<>>]

\* The tasks that apply a status snapshot.
SnapshotOps == {"poll", "session_update", "load", "stalePoll", "staleLoad"}

\* The whole state as one record, so that callbacks compose as functions.
\* dirtyToast / dirtyStatus: the ToastProvider re-rendered (new showToast and
\* showViral identities) / setStatus stored a new object, since the last render.
World(op) ==
  [mounted |-> mounted, sessionId |-> sessionId, status |-> status,
   clips |-> clips, isLoading |-> isLoading, lastClipCount |-> lastClipCount,
   wsConnected |-> wsConnected, wsRef |-> wsRef, pollingRef |-> pollingRef,
   reconnectTimeoutRef |-> reconnectTimeoutRef,
   connectionTimeoutRef |-> connectionTimeoutRef, sockets |-> sockets,
   connTimers |-> connTimers, reconTimers |-> reconTimers,
   pollTimers |-> pollTimers, inflight |-> inflight, stale |-> stale,
   toasts |-> toasts,
   obs |-> [NoObs(op) EXCEPT !.prev = IF status.status = "null" \/ op \notin SnapshotOps
                                       THEN -1
                                       ELSE status.clips_generated],
   dirtyToast |-> FALSE, dirtyStatus |-> FALSE]

\* ---- React state setters: no effect once the component is unmounted ----
setStatus(w, v) ==
  IF w.mounted THEN [w EXCEPT !.status = v, !.dirtyStatus = TRUE] ELSE w

setClips(w, v) == IF w.mounted THEN [w EXCEPT !.clips = v] ELSE w

setIsLoading(w, v) == IF w.mounted THEN [w EXCEPT !.isLoading = v] ELSE w

setLastClipCount(w, v) == IF w.mounted THEN [w EXCEPT !.lastClipCount = v] ELSE w

setWsConnected(w, v) == IF w.mounted THEN [w EXCEPT !.wsConnected = v] ELSE w

\* ToastProvider.addToast: the provider lives in the layout, above the page.
showToast(w) ==
  [w EXCEPT !.toasts = @ + 1, !.dirtyToast = TRUE, !.obs.toast = @ + 1]

showViral(w) == [showToast(w) EXCEPT !.obs.viral = @ + 1]

\* A request of kind k leaves the page.
StartRequest(w, k) == [w EXCEPT !.inflight[k] = @ + 1]

EndRequest(w, k) == [w EXCEPT !.inflight[k] = @ - 1]

\* ---- callbacks of DashboardPage ----
loadClipsOnly(w) ==
  [StartRequest(w, "clipsOnly") EXCEPT !.obs.fetch = @ + 1]

\* cleanupConnections that forgets the poll interval without clearing it.
cleanupConnections_KeepsInterval(w) ==
  LET closeIt == w.wsRef # 0 /\ w.sockets[w.wsRef].rs = "OPEN"
      w1 == [w EXCEPT
               !.sockets = IF closeIt
                           THEN [@ EXCEPT ![w.wsRef].rs = "CLOSING"]
                           ELSE @,
               !.wsRef = 0,
               !.pollingRef = 0,
               !.reconTimers = @ \ {w.reconnectTimeoutRef},
               !.reconnectTimeoutRef = 0,
               !.connTimers = @ \ {w.connectionTimeoutRef},
               !.connectionTimeoutRef = 0,
               !.obs.cleanups = @ + 1]
  IN setWsConnected(w1, FALSE)

cleanupConnections(w) ==
  LET closeIt == w.wsRef # 0 /\ w.sockets[w.wsRef].rs = "OPEN"
      w1 == [w EXCEPT
               !.sockets = IF closeIt
                           THEN [@ EXCEPT ![w.wsRef].rs = "CLOSING"]
                           ELSE @,
               !.wsRef = 0,
               !.pollTimers = {t \in @ : t.id # w.pollingRef},
               !.pollingRef = 0,
               !.reconTimers = @ \ {w.reconnectTimeoutRef},
               !.reconnectTimeoutRef = 0,
               !.connTimers = @ \ {w.connectionTimeoutRef},
               !.connectionTimeoutRef = 0,
               !.obs.cleanups = @ + 1]
  IN setWsConnected(w1, FALSE)

\* setupWebSocket up to its first await: the guard, then the health probe.
setupWebSocket(w) ==
  IF w.wsRef # 0 /\ w.sockets[w.wsRef].rs = "OPEN"
  THEN w
  ELSE [StartRequest(w, "health") EXCEPT !.obs.probes = @ + 1]

\* loadData up to its first await.
loadData(w) == StartRequest(setIsLoading(w, TRUE), "load")

\* setupPolling of the render r: the interval closes over r's wsConnected
\* and r's status?.status.
FreshPollId(w) ==
  CHOOSE n \in 1..(Cardinality(w.pollTimers) + 1) :
    \A t \in w.pollTimers : t.id # n

setupPolling(r, w) ==
  LET w1 == [w EXCEPT !.pollTimers = {t \in @ : t.id # w.pollingRef},
                      !.pollingRef = 0]
      n == FreshPollId(w1)
  IN [w1 EXCEPT !.pollTimers = @ \cup {[id |-> n,
                                         wsConnected |-> r.wsConnected,
                                         active |-> r.status.status = "active"]},
                !.pollingRef = n]

\* onclose that reconnects after every close.
onclose_AlwaysReconnects(w, i, event) ==
  LET w1 == setWsConnected(w, FALSE)
      w2 == [w1 EXCEPT !.connTimers = @ \ {w1.connectionTimeoutRef},
                       !.connectionTimeoutRef = 0,
                       !.obs.unclean = ~event.wasClean /\ event.code # 1000,
                       !.obs.code = event.code]
  IN [w2 EXCEPT !.reconTimers = @ \cup {i},
                !.reconnectTimeoutRef = i,
                !.obs.sched = @ + 1]

\* onclose with the reconnect decided by the close code alone.
onclose_ByCodeOnly(w, i, event) ==
  LET w1 == setWsConnected(w, FALSE)
      w2 == [w1 EXCEPT !.connTimers = @ \ {w1.connectionTimeoutRef},
                       !.connectionTimeoutRef = 0,
                       !.obs.unclean = ~event.wasClean /\ event.code # 1000,
                       !.obs.code = event.code]
  IN IF event.code # 1000
     THEN [w2 EXCEPT !.reconTimers = @ \cup {i},
                     !.reconnectTimeoutRef = i,
                     !.obs.sched = @ + 1]
     ELSE w2

\* ws.onclose(event)
onclose(w, i, event) ==
  LET w1 == setWsConnected(w, FALSE)
      w2 == [w1 EXCEPT !.connTimers = @ \ {w1.connectionTimeoutRef},
                       !.connectionTimeoutRef = 0,
                       !.obs.unclean = ~event.wasClean /\ event.code # 1000,
                       !.obs.code = event.code]
  IN IF ~event.wasClean /\ event.code # 1000
     THEN [w2 EXCEPT !.reconTimers = @ \cup {i},
                     !.reconnectTimeoutRef = i,
                     !.obs.sched = @ + 1]
     ELSE w2

\* ---- effects ----
\* The lifecycle effect: [sessionId, loadData, setupWebSocket, setupPolling,
\* cleanupConnections].  loadData and setupWebSocket change identity with
\* showToast, setupPolling with wsConnected and status?.status.
LifecycleDepsChanged(p, r) ==
  \/ p.sessionId # r.sessionId
  \/ r.dirtyToast
  \/ p.wsConnected # r.wsConnected
  \/ p.status.status # r.status.status

LifecycleEffect(r, w) == setupPolling(r, setupWebSocket(loadData(w)))

\* The clip-count effect: [status, lastClipCount, showViral, wsConnected,
\* loadClipsOnly].
ClipCountDepsChanged(p, r) ==
  \/ r.dirtyStatus
  \/ p.lastClipCount # r.lastClipCount
  \/ r.dirtyToast
  \/ p.wsConnected # r.wsConnected
  \/ p.sessionId # r.sessionId

\* The clip-count effect with the first-load guard one too high.
ClipCountEffect_GuardAboveOne(r, w) ==
  LET grew == /\ r.status.status # "null"
              /\ r.status.clips_generated > r.lastClipCount
              /\ r.lastClipCount > 1
      w1 == IF grew
            THEN IF ~r.wsConnected THEN loadClipsOnly(showViral(w))
                                   ELSE showViral(w)
            ELSE w
  IN IF r.status.status # "null"
     THEN setLastClipCount(w1, r.status.clips_generated)
     ELSE w1

\* The clip-count effect without the first-load guard.
ClipCountEffect_NoFirstLoadGuard(r, w) ==
  LET grew == /\ r.status.status # "null"
              /\ r.status.clips_generated > r.lastClipCount
      w1 == IF grew
            THEN IF ~r.wsConnected THEN loadClipsOnly(showViral(w))
                                   ELSE showViral(w)
            ELSE w
  IN IF r.status.status # "null"
     THEN setLastClipCount(w1, r.status.clips_generated)
     ELSE w1

ClipCountEffect(r, w) ==
  LET grew == /\ r.status.status # "null"
              /\ r.status.clips_generated > r.lastClipCount
              /\ r.lastClipCount > 0
      w1 == IF grew
            THEN IF ~r.wsConnected THEN loadClipsOnly(showViral(w))
                                   ELSE showViral(w)
            ELSE w
  IN IF r.status.status # "null"
     THEN setLastClipCount(w1, r.status.clips_generated)
     ELSE w1

\* Re-render after the state updates of a task: p is the previous render, r
\* the new one.  Effects whose dependencies changed are cleaned up and run
\* again with the values of r; the updates they make cause the next render.
RECURSIVE Commit(_, _)
Commit(p, r) ==
  LET life == LifecycleDepsChanged(p, r)
      clip == ClipCountDepsChanged(p, r)
      w0 == [r EXCEPT !.dirtyToast = FALSE, !.dirtyStatus = FALSE]
      w1 == IF life THEN cleanupConnections(w0) ELSE w0
      w2 == IF life THEN LifecycleEffect(r, w1) ELSE w1
      w3 == IF clip THEN ClipCountEffect(r, w2) ELSE w2
  IN IF ~r.mounted \/ (~life /\ ~clip) THEN w0 ELSE Commit(w0, w3)

\* ---- continuations and event handlers ----
\* setupWebSocket after a successful probe: new WebSocket, the connection
\* timeout, the handlers, wsRef.current = ws.
connectSocket(w, i) ==
  [w EXCEPT !.sockets[i] = [rs |-> "CONNECTING", est |-> FALSE],
            !.connTimers = @ \cup {i},
            !.connectionTimeoutRef = i,
            !.wsRef = i]

\* The first WebSocket slot that is free (0: none).
FreeSocket(w) ==
  IF \E i \in DOMAIN w.sockets : w.sockets[i].rs = "NONE"
  THEN CHOOSE i \in DOMAIN w.sockets :
         /\ w.sockets[i].rs = "NONE"
         /\ \A j \in DOMAIN w.sockets : j < i => w.sockets[j].rs # "NONE"
  ELSE 0

\* setupWebSocket with the return after a failed probe missing.
probeFailed_FallsThrough(w) ==
  IF FreeSocket(w) # 0 THEN connectSocket(w, FreeSocket(w)) ELSE w

\* setupWebSocket after a failed probe (response not ok, network error, or
\* aborted after 3 s): it returns.
probeFailed(w) == w

\* ws.onopen
onopen(w) ==
  LET w1 == setWsConnected(w, TRUE)
  IN [w1 EXCEPT !.connTimers = @ \ {w1.connectionTimeoutRef},
                !.connectionTimeoutRef = 0]

\* ws.onerror
onerror(w) == setWsConnected(w, FALSE)

\* The callback of the connection timeout created for socket i.
connectionTimeout(w, i) ==
  IF w.sockets[i].rs = "CONNECTING"
  THEN [w EXCEPT !.sockets[i].rs = "CLOSING"]
  ELSE w

\* An optional numeric field of a message that is not there (undefined).
Absent == -1

\* v || prior: a present 0 gives way to the prior value as well.
Coalesce_Or(v, prior) == IF v = Absent \/ v = 0 THEN prior ELSE v

\* v ?? prior
Coalesce(v, prior) == IF v = Absent THEN prior ELSE v

\* Messages of the feed.  clip = 0: data.clip is absent.
Messages ==
  [type : {"session_update"}, clips_generated : {Absent} \cup Counts, clip : {0}]
  \cup [type : {"clip_generated"}, clips_generated : {Absent}, clip : {0} \cup ClipIds]
  \cup [type : {"error"}, clips_generated : {Absent}, clip : {0}]

\* The session view with all its fields, and the data of a session_update.
Metrics == 0..MaxMetric
NullView ==
  [session_id |-> "", channel |-> "", status |-> "null", chat_speed |-> 0,
   viral_score |-> 0, clips_generated |-> 0, revenue |-> 0, created_at |-> "",
   last_updated |-> ""]
FullViews ==
  [session_id : {"s1"}, channel : {"c1"}, status : {"active", "stopped"},
   chat_speed : Metrics, viral_score : Metrics, clips_generated : Metrics,
   revenue : Metrics, created_at : {"t0"}, last_updated : {"t0", "now"}]
UpdateData ==
  [chat_speed : {Absent} \cup Metrics, viral_score : {Absent} \cup Metrics,
   clips_generated : {Absent} \cup Metrics, revenue : {Absent} \cup Metrics]
NoUpdate ==
  [chat_speed |-> Absent, viral_score |-> Absent, clips_generated |-> Absent,
   revenue |-> Absent]

\* The updater of setStatus in the session_update case.
sessionUpdate(prev, data) ==
  IF prev.status = "null"
  THEN prev
  ELSE [prev EXCEPT !.chat_speed = Coalesce(data.chat_speed, @),
                    !.viral_score = Coalesce(data.viral_score, @),
                    !.clips_generated = Coalesce(data.clips_generated, @),
                    !.revenue = Coalesce(data.revenue, @),
                    !.last_updated = "now"]

handleWebSocketMessage(w, m) ==
  CASE m.type = "session_update" ->
         IF w.status.status = "null"
         THEN w
         ELSE setStatus(w, [w.status EXCEPT
                !.clips_generated = Coalesce(m.clips_generated, @)])
    [] m.type = "clip_generated" ->
         IF m.clip # 0
         THEN showToast(setClips([w EXCEPT !.obs.clip = m.clip],
                                 <<m.clip>> \o w.clips))
         ELSE w
    [] OTHER -> showToast(w)

\* The poll callback with the test of the feed inverted.
pollTick_WhenConnected(w, t) ==
  IF t.wsConnected /\ t.active
  THEN [StartRequest(w, "poll") EXCEPT !.obs.polled = TRUE]
  ELSE w

\* The poll callback without the test of the session status.
pollTick_IgnoresStatus(w, t) ==
  IF ~t.wsConnected
  THEN [StartRequest(w, "poll") EXCEPT !.obs.polled = TRUE]
  ELSE w

\* The callback of the poll interval t.
pollTick(w, t) ==
  IF ~t.wsConnected /\ t.active
  THEN [StartRequest(w, "poll") EXCEPT !.obs.polled = TRUE]
  ELSE w

\* The catch of the poll callback with a toast like the one of loadData.
pollFailed_Toasts(w) == showToast(w)

\* The catch of the poll callback: console.error.
pollFailed(w) == w

\* loadData after getStatus resolved with s.
loadDataStatus(w, s) ==
  LET w1 == setLastClipCount(setStatus(w, s), s.clips_generated)
  IN IF s.clips_generated > 0
     THEN StartRequest(w1, "loadClips")
     ELSE setIsLoading(w1, FALSE)

\* handleStopMonitoring after stopMonitoring resolved.
stopSucceeded(w) == cleanupConnections(showToast(w))

\* ---- the monitor of the poll sequence 0, 1, 2 ----
\* 1: a poll returned 0 to a view that knew 0; 2: the next poll returned 1;
\* 3: the next returned 2; -1: one of them raised the wrong number of viral
\* notifications.
PollScenario(sc, w) ==
  LET prev == w.obs.prev
      now == w.status.clips_generated
      v == w.obs.viral
  IN IF sc = -1 THEN -1
     ELSE IF ~w.obs.applied THEN sc
     ELSE IF prev = 0 /\ now = 0 THEN (IF v = 0 THEN 1 ELSE -1)
     ELSE IF sc = 1 /\ prev = 0 /\ now = 1 THEN (IF v = 0 THEN 2 ELSE -1)
     ELSE IF sc = 2 /\ prev = 1 /\ now = 2 THEN (IF v = 1 THEN 3 ELSE -1)
     ELSE 0

\* ---- tasks ----
RECURSIVE Outstanding(_, _)
Outstanding(f, K) ==
  IF K = {} THEN 0
  ELSE LET k == CHOOSE x \in K : TRUE IN f[k] + Outstanding(f, K \ {k})

Fits(w) ==
  /\ w.inflight["load"] <= MaxInflight
  /\ w.inflight["health"] <= MaxInflight
  /\ Outstanding(w.inflight, Kinds \ {"load", "health"}) <= MaxPending
  /\ Outstanding(w.stale, Kinds) <= MaxStale
  /\ w.toasts <= MaxToasts
  /\ Len(w.clips) <= MaxLen

Set(w, sc) ==
  /\ Fits(w)
  /\ mounted' = w.mounted
  /\ sessionId' = w.sessionId
  /\ status' = w.status
  /\ clips' = w.clips
  /\ isLoading' = w.isLoading
  /\ lastClipCount' = w.lastClipCount
  /\ wsConnected' = w.wsConnected
  /\ wsRef' = w.wsRef
  /\ pollingRef' = w.pollingRef
  /\ reconnectTimeoutRef' = w.reconnectTimeoutRef
  /\ connectionTimeoutRef' = w.connectionTimeoutRef
  /\ sockets' = w.sockets
  /\ connTimers' = w.connTimers
  /\ reconTimers' = w.reconTimers
  /\ pollTimers' = w.pollTimers
  /\ inflight' = w.inflight
  /\ stale' = w.stale
  /\ toasts' = w.toasts
  /\ obs' = w.obs
  /\ scenario' = sc
  /\ delivered' = IF ~w.mounted THEN FALSE
                  ELSE IF w.obs.clip # 0 THEN TRUE
                  ELSE IF w.status.clips_generated # status.clips_generated THEN FALSE
                  ELSE delivered
  /\ UNCHANGED <<sv, upd, auth, appPage, chatPage>>

\* Garbage.  A ref that holds the id of a timer which fired or was cleared
\* behaves as null (clearTimeout of it does nothing), and so does wsRef once
\* its socket left CONNECTING and OPEN (the ref is only ever tested for OPEN).
\* A closed WebSocket that no pending timer names has no event left: its slot
\* is free again.
Collect(w) ==
  LET dead(i) == i # 0 /\ w.sockets[i].rs \in {"CLOSING", "CLOSED"}
      w1 == [w EXCEPT
               !.wsRef = IF dead(@) THEN 0 ELSE @,
               !.connectionTimeoutRef = IF @ \in w.connTimers THEN @ ELSE 0,
               !.reconnectTimeoutRef = IF @ \in w.reconTimers THEN @ ELSE 0]
  IN [w1 EXCEPT !.sockets =
        [i \in DOMAIN w.sockets |->
           IF w.sockets[i].rs = "CLOSED" /\ i \notin w.connTimers \cup w.reconTimers
           THEN NoSocket
           ELSE w.sockets[i]]]

\* A task that ran callback result w from the world of operation op.
Task(op, w) ==
  Set(Collect(Commit(World(op), w)), IF scenario = -1 THEN -1 ELSE scenario)

\* A task that applied a status snapshot which is not a poll result.
SnapshotTask(op, w) ==
  Set(Collect(Commit(World(op), w)),
      IF scenario = -1 THEN -1 ELSE IF w.mounted THEN 0 ELSE scenario)

\* localStorage.getItem gives null for a key that is not stored; the code
\* tests the value for truthiness only, which null and "" both fail.
Null == <<>>

\* An empty localStorage; no token returned yet.
NoAuth == [demo_token |-> Null, demo_token_timestamp |-> Null,
           now |-> 0, returned |-> Null]

\* AppPage after its first render, the backend without clips.
\* sessionId "" is null; starting: startMonitoring is outstanding; polls: the
\* intervals of startPolling, each with the clips.length its closure holds;
\* fetches: outstanding requests of pollForUpdates, by that length; backend:
\* the clips the backend has made for the session, oldest first.
FreshAppPage == [clips |-> <<>>, sessionId |-> "", starting |-> FALSE,
                 captured |-> 0, polls |-> {}, fetches |-> <<>>,
                 backend |-> <<>>]

\* LiveChatPage after its first render.
\* chatMessages: the entries, a chat message as its arrival number and the
\* "Connected" notice as 0; ws: readyState of the socket of the effect;
\* received: chat messages received so far; switches: changes of sessionId;
\* op: the handler that ran last.
FreshChatPage == [chatMessages |-> <<>>, ws |-> "CONNECTING", received |-> 0,
                  switches |-> 0, op |-> "mount"]

Fresh ==
  [mounted |-> TRUE, sessionId |-> "s1", status |-> NullStatus,
   clips |-> <<>>, isLoading |-> TRUE, lastClipCount |-> 0,
   wsConnected |-> FALSE, wsRef |-> 0, pollingRef |-> 0,
   reconnectTimeoutRef |-> 0, connectionTimeoutRef |-> 0,
   sockets |-> [i \in SockIds |-> NoSocket],
   connTimers |-> {}, reconTimers |-> {}, pollTimers |-> {},
   inflight |-> [k \in Kinds |-> 0], stale |-> [k \in Kinds |-> 0],
   toasts |-> 0,
   obs |-> NoObs("mount"), dirtyToast |-> FALSE, dirtyStatus |-> FALSE]

\* The first render and its effects.
Mounted == ClipCountEffect(Fresh, LifecycleEffect(Fresh, Fresh))

InitDashboard ==
  /\ mounted = Mounted.mounted
  /\ sessionId \in Sessions
  /\ status = Mounted.status
  /\ clips = Mounted.clips
  /\ isLoading = Mounted.isLoading
  /\ lastClipCount = Mounted.lastClipCount
  /\ wsConnected = Mounted.wsConnected
  /\ wsRef = Mounted.wsRef
  /\ pollingRef = Mounted.pollingRef
  /\ reconnectTimeoutRef = Mounted.reconnectTimeoutRef
  /\ connectionTimeoutRef = Mounted.connectionTimeoutRef
  /\ sockets = Mounted.sockets
  /\ connTimers = Mounted.connTimers
  /\ reconTimers = Mounted.reconTimers
  /\ pollTimers = Mounted.pollTimers
  /\ inflight = Mounted.inflight
  /\ stale = Mounted.stale
  /\ toasts = Mounted.toasts
  /\ obs = Mounted.obs
  /\ scenario = 0
  /\ delivered = FALSE

\* The other pages and the token store before anything ran.
OthersIdle == auth = NoAuth /\ appPage = FreshAppPage /\ chatPage = FreshChatPage

Init == InitDashboard /\ sv = NullView /\ upd = NoUpdate /\ OthersIdle

HealthOk ==
  /\ inflight["health"] > 0
  /\ \E i \in DOMAIN sockets :
       /\ sockets[i].rs = "NONE"
       /\ \A j \in DOMAIN sockets : j < i => sockets[j].rs # "NONE"
       /\ Task("healthOk", connectSocket(EndRequest(World("healthOk"), "health"), i))

HealthFail ==
  /\ inflight["health"] > 0
  /\ Task("healthFail", probeFailed(EndRequest(World("healthFail"), "health")))

WsOpen ==
  \E i \in DOMAIN sockets :
    /\ sockets[i].rs = "CONNECTING"
    /\ Task("open", onopen([World("open") EXCEPT
                              !.sockets[i] = [rs |-> "OPEN", est |-> TRUE]]))

WsMessage ==
  \E i \in DOMAIN sockets, m \in Messages :
    /\ sockets[i].rs = "OPEN"
    /\ LET w == handleWebSocketMessage(World(m.type), m)
       IN IF m.type = "session_update"
          THEN SnapshotTask(m.type, [w EXCEPT !.obs.applied = w.dirtyStatus])
          ELSE Task(m.type, w)

\* The server or the network ends the connection.
WsClosed ==
  \E i \in DOMAIN sockets, ev \in ServerCloseEvents :
    /\ sockets[i].rs \in {"CONNECTING", "OPEN"}
    /\ sockets[i].rs = "CONNECTING" => ev = AbnormalClose
    /\ LET w0 == [World("close") EXCEPT !.sockets[i].rs = "CLOSED"]
           w1 == IF ev = AbnormalClose THEN onerror(w0) ELSE w0
       IN Task("close", onclose(w1, i, ev))

\* A close() of the page completes: the closing handshake of an established
\* connection (or its failure), the failure of one that never opened.
WsCloseDone ==
  \E i \in DOMAIN sockets, ev \in {LocalClose, AbnormalClose} :
    /\ sockets[i].rs = "CLOSING"
    /\ ~sockets[i].est => ev = AbnormalClose
    /\ LET w0 == [World("close") EXCEPT !.sockets[i].rs = "CLOSED"]
           w1 == IF ev = AbnormalClose THEN onerror(w0) ELSE w0
       IN Task("close", onclose(w1, i, ev))

ConnTimeout ==
  \E i \in connTimers :
    Task("connTimeout",
         connectionTimeout([World("connTimeout") EXCEPT !.connTimers = @ \ {i}], i))

ReconnectFire ==
  \E i \in reconTimers :
    Task("reconnect",
         setupWebSocket([World("reconnect") EXCEPT !.reconTimers = @ \ {i}]))

PollTick ==
  \E t \in pollTimers : Task("tick", pollTick(World("tick"), t))

PollOk ==
  /\ inflight["poll"] > 0
  /\ \E s \in Snapshots :
       LET w == setStatus(EndRequest(World("poll"), "poll"), s)
           c == Collect(Commit(World("poll"), [w EXCEPT !.obs.applied = w.mounted]))
       IN Set(c, PollScenario(scenario, c))

PollFail ==
  /\ inflight["poll"] > 0
  /\ Task("pollFail", pollFailed(EndRequest(World("pollFail"), "poll")))

LoadStatusOk ==
  /\ inflight["load"] > 0
  /\ \E s \in Snapshots :
       LET w == loadDataStatus(EndRequest(World("load"), "load"), s)
       IN SnapshotTask("load", [w EXCEPT !.obs.applied = w.mounted])

LoadStatusFail ==
  /\ inflight["load"] > 0
  /\ Task("loadFail",
          setIsLoading(showToast(EndRequest(World("loadFail"), "load")), FALSE))

LoadClipsOk ==
  /\ inflight["loadClips"] > 0
  /\ \E l \in BackendLists :
       Task("loadClips",
            setIsLoading(setClips(EndRequest(World("loadClips"), "loadClips"), l),
                         FALSE))

LoadClipsFail ==
  /\ inflight["loadClips"] > 0
  /\ Task("loadClipsFail",
          setIsLoading(showToast(EndRequest(World("loadClipsFail"), "loadClips")),
                       FALSE))

ClipsOnlyOk ==
  /\ inflight["clipsOnly"] > 0
  /\ \E l \in BackendLists :
       Task("clipsOnly",
            setClips([EndRequest(World("clipsOnly"), "clipsOnly")
                        EXCEPT !.obs.fetched = l], l))

ClipsOnlyFail ==
  /\ inflight["clipsOnly"] > 0
  /\ Task("clipsOnlyFail", EndRequest(World("clipsOnlyFail"), "clipsOnly"))

\* The dashboard proper is rendered once loading finished with a session.
DashboardShown == mounted /\ ~isLoading /\ status.status # "null"

RefreshClick ==
  /\ DashboardShown
  /\ Task("refreshClick", StartRequest(World("refreshClick"), "refresh"))

RefreshOk ==
  /\ inflight["refresh"] > 0
  /\ \E l \in BackendLists :
       Task("refresh",
            showToast(setClips([EndRequest(World("refresh"), "refresh")
                                  EXCEPT !.obs.fetched = l], l)))

RefreshFail ==
  /\ inflight["refresh"] > 0
  /\ Task("refreshFail", showToast(EndRequest(World("refreshFail"), "refresh")))

StopClick ==
  /\ DashboardShown
  /\ Task("stopClick", StartRequest(World("stopClick"), "stop"))

StopOk ==
  /\ inflight["stop"] > 0
  /\ Task("stop", stopSucceeded(EndRequest(World("stop"), "stop")))

StopFail ==
  /\ inflight["stop"] > 0
  /\ Task("stopFail", showToast(EndRequest(World("stopFail"), "stop")))

\* The page is left: React runs the cleanup of the lifecycle effect.
\* The state of the component is discarded with it; the refs live on in the
\* closures of its callbacks.
\* Requests whose continuation only sets that state (and raises toasts, which
\* nothing of the page depends on any more) are forgotten as well.
unmount(w) ==
  cleanupConnections([w EXCEPT !.mounted = FALSE,
                               !.status = Fresh.status,
                               !.clips = Fresh.clips,
                               !.isLoading = Fresh.isLoading,
                               !.lastClipCount = Fresh.lastClipCount,
                               !.wsConnected = Fresh.wsConnected,
                               !.toasts = 0,
                               !.stale = Fresh.stale,
                               !.inflight = [k \in Kinds |->
                                  IF k \in {"health", "stop"} THEN @[k] ELSE 0]])

Unmount ==
  /\ mounted
  /\ Task("unmount", unmount(World("unmount")))

\* A toast is removed (its timer or its close button): ToastProvider renders.
ToastDismiss ==
  /\ toasts > 0
  /\ Task("dismiss", [World("dismiss") EXCEPT !.toasts = @ - 1, !.dirtyToast = TRUE])

Next ==
  \/ HealthOk \/ HealthFail
  \/ WsOpen \/ WsMessage \/ WsClosed \/ WsCloseDone
  \/ ConnTimeout \/ ReconnectFire
  \/ PollTick \/ PollOk \/ PollFail
  \/ LoadStatusOk \/ LoadStatusFail \/ LoadClipsOk \/ LoadClipsFail
  \/ ClipsOnlyOk \/ ClipsOnlyFail
  \/ RefreshClick \/ RefreshOk \/ RefreshFail
  \/ StopClick \/ StopOk \/ StopFail
  \/ Unmount \/ ToastDismiss

Spec == Init /\ [][Next]_vars

\* The push channel keeps failing: the backend answers the health probe, but
\* no socket ever opens.
NextFeedFailing ==
  \/ HealthOk
  \/ WsClosed \/ WsCloseDone
  \/ ConnTimeout \/ ReconnectFire
  \/ PollTick \/ PollFail
  \/ LoadStatusOk \/ LoadStatusFail \/ LoadClipsOk \/ LoadClipsFail
  \/ ToastDismiss

\* The event loop runs a task whenever one is pending.
SpecFeedFailing ==
  Init /\ [][NextFeedFailing]_vars /\ WF_vars(NextFeedFailing)

TypeOK ==
  /\ mounted \in BOOLEAN
  /\ status \in Snapshots \cup {NullStatus}
  /\ lastClipCount \in Counts
  /\ wsRef \in {0} \cup SockIds
  /\ toasts \in 0..MaxToasts
  /\ scenario \in -1..3
  /\ delivered \in BOOLEAN

\* ---- the page is given another sessionId while it stays mounted ----
\* Requests whose URL carries the sessionId.
SessionBound == {"load", "loadClips", "poll", "clipsOnly", "refresh"}

\* useParams() returns sid: what is outstanding was started for the old id.
switchSession(w, sid) ==
  [w EXCEPT !.sessionId = sid,
            !.stale = [k \in Kinds |->
                         IF k \in SessionBound THEN @[k] + w.inflight[k] ELSE @[k]],
            !.inflight = [k \in Kinds |-> IF k \in SessionBound THEN 0 ELSE @[k]]]

\* A request that the continuation of an old request started is old as well.
Age(w, k) == [w EXCEPT !.inflight[k] = @ - 1, !.stale[k] = @ + 1]

SessionChange ==
  /\ mounted
  /\ sessionId # NextSession
  /\ Task("navigate", switchSession(World("navigate"), NextSession))

\* loadData of the old session: getStatus resolved.
StaleLoadStatusOk ==
  /\ stale["load"] > 0
  /\ \E s \in Snapshots :
       LET w0 == [World("staleLoad") EXCEPT !.stale["load"] = @ - 1]
           w1 == loadDataStatus(w0, s)
           w2 == IF s.clips_generated > 0 THEN Age(w1, "loadClips") ELSE w1
       IN SnapshotTask("staleLoad", [w2 EXCEPT !.obs.applied = w2.mounted])

\* The poll of the old session resolved.
StalePollOk ==
  /\ stale["poll"] > 0
  /\ \E s \in Snapshots :
       LET w == setStatus([World("stalePoll") EXCEPT !.stale["poll"] = @ - 1], s)
       IN SnapshotTask("stalePoll", [w EXCEPT !.obs.applied = w.mounted])

\* getClips of the old session resolved, in loadData or in loadClipsOnly.
StaleClipsOk ==
  \E k \in {"loadClips", "clipsOnly"}, l \in BackendLists :
    /\ stale[k] > 0
    /\ LET w == setClips([World("staleClips") EXCEPT !.stale[k] = @ - 1], l)
       IN Task("staleClips", IF k = "loadClips" THEN setIsLoading(w, FALSE) ELSE w)

\* A request of the old session failed.
StaleFail ==
  \E k \in SessionBound :
    /\ stale[k] > 0
    /\ LET w == [World("staleFail") EXCEPT !.stale[k] = @ - 1]
       IN Task("staleFail",
               IF k \in {"load", "loadClips"}
               THEN setIsLoading(showToast(w), FALSE)
               ELSE w)

\* Session switch with the feed unreachable.
NextNav ==
  \/ SessionChange
  \/ StaleLoadStatusOk \/ StalePollOk \/ StaleClipsOk \/ StaleFail
  \/ HealthFail
  \/ PollTick \/ PollOk \/ PollFail
  \/ LoadStatusOk \/ LoadStatusFail \/ LoadClipsOk \/ LoadClipsFail
  \/ ClipsOnlyOk \/ ClipsOnlyFail
  \/ ToastDismiss

SpecNav == Init /\ [][NextNav]_vars

\* ---- session_update applied to a session view with all its fields ----
InitMerge ==
  InitDashboard /\ sv \in FullViews \cup {NullView} /\ upd = NoUpdate /\ OthersIdle

SessionUpdate ==
  \E d \in UpdateData :
    /\ sv' = sessionUpdate(sv, d)
    /\ upd' = d
    /\ UNCHANGED <<mounted, sessionId, status, clips, isLoading, lastClipCount,
                   wsConnected, wsRef, pollingRef, reconnectTimeoutRef,
                   connectionTimeoutRef, sockets, connTimers, reconTimers,
                   pollTimers, inflight, stale, toasts, obs, scenario, delivered,
                   auth, appPage, chatPage>>

SpecMerge == InitMerge /\ [][SessionUpdate]_vars

\* ---- properties ----
Alive(i) == sockets[i].rs \in {"CONNECTING", "OPEN"}

FeedCallbacks == {"healthOk", "open", "connTimeout", "reconnect", "tick",
                  "session_update", "clip_generated", "error"}

\* C1: once the session view is torn down no connection-timeout, reconnect or
\* poll timer is pending, no socket of the view is connecting or open, no
\* socket is created and no timer or socket callback of the view runs.
C1_TeardownIsFinal ==
  ~mounted =>
    /\ connTimers = {} /\ reconTimers = {} /\ pollTimers = {}
    /\ \A i \in SockIds : ~Alive(i)
    /\ obs.op \notin FeedCallbacks

\* C2: the visible clip list never holds two entries with the same clip
\* identifier, whatever the interleaving of clip-list fetches and
\* clip_generated events.
C2_NoDuplicateClips == NoDup(clips)

\* C3: while the view lives, every step leaves the set of clip identifiers in
\* the visible list a superset of what it was.
C3_ClipsOnlyGrow == [][mounted' => IdSet(clips) \subseteq IdSet(clips')]_vars

\* C4: a clip_generated event for a clip identifier that is already in the
\* list does not change the length of the list.
C4_PushUpdatesInPlace ==
  [][(mounted /\ obs'.op = "clip_generated" /\ obs'.clip \in IdSet(clips))
       => Len(clips') = Len(clips)]_vars

\* The snapshot the last task applied raised clips_generated above a nonzero
\* previous count.
GrewFromNonzero ==
  /\ obs.applied
  /\ obs.prev > 0
  /\ status.clips_generated > obs.prev

\* C5: a poll result or a session_update that raises clips_generated above a
\* nonzero previous count fires exactly one viral notification.
C5_OneViralPerIncrease ==
  (obs.op \in {"poll", "session_update"} /\ GrewFromNonzero) => obs.viral = 1

C5_Witness ==
  obs.op = "session_update" /\ GrewFromNonzero /\ obs.viral = 1

\* C6: from a known clip count of 0, polls returning 0, 1, 2 raise no viral
\* notification, none, and exactly one; after each poll the known count is
\* the count the poll returned.
C6_PollSequence ==
  /\ scenario # -1
  /\ (mounted /\ status.status # "null") => lastClipCount = status.clips_generated
  /\ (obs.op = "poll" /\ obs.applied /\ obs.prev = 0) => obs.viral = 0

C6_Witness ==
  /\ scenario = 3
  /\ obs.op = "poll" /\ obs.prev = 1 /\ status.clips_generated = 2
  /\ obs.viral = 1

\* C7: a poll result with a larger clips_generated than the known count,
\* an increase from 0 to 1 included, triggers a fetch of the clip list when
\* the feed is not connected.
C7_IncreaseTriggersFetch ==
  (/\ obs.op = "poll" /\ obs.applied /\ obs.prev >= 0
   /\ status.clips_generated > obs.prev
   /\ ~wsConnected)
    => obs.fetch >= 1

\* C8: no poller tick issues a status request while a feed socket of the
\* view is open and the session status is active.
C8_NoPollWhileFeedOpen ==
  (obs.op = "tick" /\ obs.polled)
    => ~(status.status = "active" /\ \E i \in SockIds : sockets[i].rs = "OPEN")

C10_OneReconnectPerUncleanClose ==
  /\ (mounted /\ obs.op = "close" /\ obs.unclean)
       => /\ obs.sched = 1
          /\ reconnectTimeoutRef \in reconTimers
          /\ obs.probes = 0
  /\ (mounted /\ obs.op = "close" /\ ~obs.unclean) => obs.sched = 0
  /\ (mounted /\ obs.op = "reconnect")
       => obs.probes = 1 /\ inflight["health"] >= 1

C10_Witness ==
  /\ mounted /\ obs.op = "reconnect" /\ obs.probes = 1
  /\ reconTimers = {}

\* C11: a clean close (wasClean, or close code 1000), the completion of the
\* close() of a teardown included, schedules no reconnect timer and enters no
\* connect procedure, whether the view is alive or gone.
C11_CleanCloseNoReconnect ==
  (obs.op = "close" /\ ~obs.unclean)
    => obs.sched = 0 /\ obs.probes = 0

\* The close() of cleanupConnections completed with its close event (1005).
C11_Witness ==
  /\ obs.op = "close" /\ obs.code = LocalClose.code /\ ~obs.unclean
  /\ obs.sched = 0

\* C12: the task that handles a failed health probe creates no socket,
\* schedules no connection-timeout and no reconnect timer, and leaves the feed
\* not connected.
C12_FailedProbeStaysIdle ==
  [][obs'.op = "healthFail"
       => /\ sockets' = sockets
          /\ connTimers' = connTimers
          /\ reconTimers' = reconTimers
          /\ wsRef' = wsRef
          /\ ~wsConnected']_vars

C12_Witness ==
  /\ obs.op = "healthFail" /\ mounted
  /\ \A i \in SockIds : sockets[i].rs = "NONE"
  /\ connTimers = {} /\ reconTimers = {} /\ ~wsConnected

\* No socket is connecting or open and no health probe is outstanding.
FeedDown ==
  /\ \A i \in SockIds : ~Alive(i)
  /\ inflight["health"] = 0

C14_ConnectingIsGuarded ==
  mounted => \A i \in SockIds : sockets[i].rs = "CONNECTING" => i \in connTimers

C16_NoRefetchOfDeliveredClip ==
  [][(/\ obs'.op \in {"poll", "session_update"}
      /\ obs'.applied
      /\ status.status # "null"
      /\ status'.clips_generated > status.clips_generated
      /\ delivered)
       => obs'.fetch = 0 /\ obs'.viral = 0]_vars

\* C17: the controller eventually stops scheduling reconnects: from some point
\* on no task schedules a reconnect timer.
C17_ReconnectsEventuallyStop == <>[][obs'.sched = 0]_vars

\* C18: a session_update sets chat_speed, viral_score, clips_generated and
\* revenue to the value of the message where the field is present and keeps
\* the prior value where it is absent; session_id, channel, status and
\* created_at stay; a null view stays null.
C18_SessionUpdateMerges ==
  [][LET d == upd'
         merged(new, old) == IF new = Absent THEN old ELSE new
     IN IF sv.status = "null"
        THEN sv' = sv
        ELSE /\ sv'.chat_speed = merged(d.chat_speed, sv.chat_speed)
             /\ sv'.viral_score = merged(d.viral_score, sv.viral_score)
             /\ sv'.clips_generated = merged(d.clips_generated, sv.clips_generated)
             /\ sv'.revenue = merged(d.revenue, sv.revenue)
             /\ sv'.session_id = sv.session_id
             /\ sv'.channel = sv.channel
             /\ sv'.status = sv.status
             /\ sv'.created_at = sv.created_at]_vars

\* An update with a present 0 and an absent field was merged.
C18_Witness ==
  /\ sv.status # "null"
  /\ upd.chat_speed = 0 /\ sv.chat_speed = 0
  /\ upd.revenue = Absent /\ sv.revenue = 1
  /\ upd.clips_generated = 1 /\ sv.clips_generated = 1
  /\ sv.last_updated = "now"

\* C19: handling an error envelope raises exactly one notification and is
\* non-fatal: the session view, the clip list, the sockets and the poll timer
\* are as they were, no teardown runs and no load or connect procedure starts.
C19_ErrorIsNonFatal ==
  [][(mounted /\ obs'.op = "error")
       => /\ obs'.toast = 1
          /\ status' = status /\ clips' = clips /\ isLoading' = isLoading
          /\ sockets' = sockets /\ wsRef' = wsRef
          /\ pollTimers' = pollTimers /\ pollingRef' = pollingRef
          /\ obs'.cleanups = 0 /\ obs'.probes = 0
          /\ inflight' = inflight]_vars

\* C20: a failed status poll changes neither the session view nor the clip
\* list, raises no toast and leaves the poll interval armed with the same
\* decision: a tick that polled before the failure polls after it.
C20_FailedPollIsSilent ==
  [][obs'.op = "pollFail"
       => /\ status' = status /\ clips' = clips
          /\ lastClipCount' = lastClipCount /\ isLoading' = isLoading
          /\ toasts' = toasts /\ obs'.toast = 0
          /\ pollTimers' = pollTimers /\ pollingRef' = pollingRef
          /\ obs'.cleanups = 0]_vars

\* A poll failed while the view lives and its interval is one whose ticks poll.
C20_Witness ==
  /\ obs.op = "pollFail" /\ mounted /\ status.status = "active"
  /\ \E t \in pollTimers : t.id = pollingRef /\ ~t.wsConnected /\ t.active

\* C21: when the only status request of the initial load fails, the view is
\* left in the error state (loading finished, no session view) and no further
\* load is started: nothing is torn down, nothing is requested.
C21_FailedLoadIsFinal ==
  [][(/\ mounted /\ obs'.op = "loadFail"
      /\ status.status = "null" /\ inflight["load"] = 1)
       => /\ ~isLoading'
          /\ status'.status = "null"
          /\ inflight'["load"] = 0
          /\ obs'.cleanups = 0]_vars

\* ---- the connect procedure with room for one more socket ----
\* The browser lets the page hold a second WebSocket beside the first.
TwoSlots == [i \in 1..(MaxSockets + 1) |-> NoSocket]

InitTwoSlots ==
  /\ mounted = Mounted.mounted
  /\ sessionId \in Sessions
  /\ status = Mounted.status
  /\ clips = Mounted.clips
  /\ isLoading = Mounted.isLoading
  /\ lastClipCount = Mounted.lastClipCount
  /\ wsConnected = Mounted.wsConnected
  /\ wsRef = Mounted.wsRef
  /\ pollingRef = Mounted.pollingRef
  /\ reconnectTimeoutRef = Mounted.reconnectTimeoutRef
  /\ connectionTimeoutRef = Mounted.connectionTimeoutRef
  /\ sockets = TwoSlots
  /\ connTimers = Mounted.connTimers
  /\ reconTimers = Mounted.reconTimers
  /\ pollTimers = Mounted.pollTimers
  /\ inflight = Mounted.inflight
  /\ stale = Mounted.stale
  /\ toasts = Mounted.toasts
  /\ obs = Mounted.obs
  /\ scenario = 0
  /\ delivered = FALSE
  /\ sv = NullView
  /\ upd = NoUpdate
  /\ OthersIdle

\* The feed and the initial load, without polls, toasts and clicks.
NextConnect ==
  \/ HealthOk \/ HealthFail
  \/ WsOpen \/ WsClosed \/ WsCloseDone
  \/ ConnTimeout \/ ReconnectFire
  \/ LoadStatusOk \/ LoadClipsOk
  \/ Unmount

SpecConnect == InitTwoSlots /\ [][NextConnect]_vars

\* C22: at every moment at most one socket of the dashboard controller is
\* connecting or open.
C22_AtMostOneLiveSocket ==
  Cardinality({i \in DOMAIN sockets : sockets[i].rs \in {"CONNECTING", "OPEN"}}) <= 1

\* What a merge by clip identifier would give: fetched entries whose
\* identifier is not held go in front, the held entries keep their positions.
MergeById(held, fetched) ==
  SelectSeq(fetched, LAMBDA c : c \notin IdSet(held)) \o held

\* C23: a freshly fetched clip list is merged into the held list by clip
\* identifier: held entries stay where they are, new ones are prepended.
C23_FetchMergesById ==
  [][(mounted /\ obs'.op \in {"clipsOnly", "refresh"})
       => clips' = MergeById(clips, obs'.fetched)]_vars

\* C24: once a socket has reached open, the feed is marked connected and no
\* connection-timeout guard is pending for an open socket.
C24_OpenMarksConnected ==
  (mounted /\ obs.op = "open")
    => /\ wsConnected
       /\ \A i \in DOMAIN sockets : sockets[i].rs = "OPEN" => i \notin connTimers

\* ---- getDemoToken (lib/api.ts) ----
OneHour == 60 * 60 * 1000

MaxHours == 3          \* hours the clock runs

\* Readings of Date.now(): around every full hour.
Times == {h * OneHour + d : h \in 0..MaxHours, d \in {0, 1, OneHour - 1}}

\* Number.prototype.toString(): the decimal digits of a non-negative integer.
RECURSIVE toString(_)
toString(n) == IF n < 10 THEN <<n>> ELSE Append(toString(n \div 10), n % 10)

\* parseInt of a string of decimal digits (NaN for the empty string, which
\* the callers exclude).
RECURSIVE parseInt(_)
parseInt(str) ==
  IF str = <<>> THEN 0
  ELSE 10 * parseInt(SubSeq(str, 1, Len(str) - 1)) + str[Len(str)]

\* 'demo-token-' + Date.now(): the token is named by the digits.
Token(t) == toString(t)

\* The age test with the token still valid at exactly one hour.
AgeBelow_Inclusive(t, tokenTimestamp) == t - parseInt(tokenTimestamp) <= OneHour

\* tokenAge < oneHour
AgeBelow(t, tokenTimestamp) == t - parseInt(tokenTimestamp) < OneHour

\* getDemoToken with the three readings of Date.now() it may take.
getDemoToken(a, t1, t2, t3) ==
  IF /\ a.demo_token # Null
     /\ a.demo_token_timestamp # Null
     /\ AgeBelow(t1, a.demo_token_timestamp)
  THEN [a EXCEPT !.now = t1, !.returned = a.demo_token]
  ELSE [a EXCEPT !.demo_token = Token(t2),
                 !.demo_token_timestamp = toString(t3),
                 !.now = t3,
                 !.returned = Token(t2)]

\* A request of the API client asks for the token, any time later.
GetDemoToken ==
  \E t1, t2, t3 \in Times :
    /\ auth.now <= t1 /\ t1 <= t2 /\ t2 <= t3
    /\ auth' = getDemoToken(auth, t1, t2, t3)
    /\ UNCHANGED <<dashVars, sv, upd, appPage, chatPage>>

SpecToken == Init /\ [][GetDemoToken]_vars

\* C25: getDemoToken returns the stored token unchanged when a token and its
\* timestamp are stored and the token is less than one hour old; otherwise it
\* creates a token, stores it with the current time as its timestamp and
\* returns it.  The token returned is always less than one hour old.
C25_TokenRotatedAfterOneHour ==
  [][auth' # auth =>
       /\ IF /\ auth.demo_token # Null
             /\ auth.demo_token_timestamp # Null
             /\ auth'.now - parseInt(auth.demo_token_timestamp) < OneHour
          THEN /\ auth'.returned = auth.demo_token
               /\ auth'.demo_token = auth.demo_token
               /\ auth'.demo_token_timestamp = auth.demo_token_timestamp
          ELSE /\ auth'.returned = auth'.demo_token
               /\ auth'.returned # Null
               /\ parseInt(auth'.demo_token_timestamp) = auth'.now
               /\ parseInt(auth'.returned) >= auth.now
       /\ auth'.returned = auth'.demo_token
       /\ auth'.now - parseInt(auth'.demo_token_timestamp) < OneHour]_vars

\* A stored token is returned in the last millisecond of its hour.
C25_Witness ==
  /\ auth.returned # Null
  /\ auth.returned = auth.demo_token
  /\ auth.now - parseInt(auth.demo_token_timestamp) = OneHour - 1

\* C26: while the page stays mounted for the same session and monitoring is
\* not stopped, no task makes the controller run its teardown or brings the
\* loading screen of the initial load back.
C26_NoTeardownWithinSession ==
  [][(/\ mounted /\ mounted'
      /\ sessionId' = sessionId
      /\ obs'.op \notin {"stop", "unmount", "navigate"})
       => /\ obs'.cleanups = 0
          /\ ~isLoading => ~isLoading']_vars

\* ---- the creator console (AppPage) ----
MaxBackend == 3        \* clips the backend makes for the session
MaxFetches == 2        \* outstanding requests of pollForUpdates
MaxShown == 6          \* entries of the console's clip list

\* handleStartMonitoring up to its await: setClips([]); the handler belongs
\* to the render that was clicked, and so does the clips its startPolling
\* will close over.
handleStartMonitoring(a) ==
  [a EXCEPT !.clips = <<>>, !.starting = TRUE, !.captured = Len(a.clips)]

\* startPolling(sessionId): setInterval(pollForUpdates, 5000)
startPolling(a) == [a EXCEPT !.polls = @ \cup {a.captured}]

\* pollForUpdates after its awaits, with data.clips = data and the
\* clips.length n of its closure.
pollForUpdates(a, n, data) ==
  IF Len(data) > n
  THEN [a EXCEPT !.clips = SubSeq(data, n + 1, Len(data)) \o @]
  ELSE a

OthersUnchanged == UNCHANGED <<dashVars, sv, upd, auth, chatPage>>

StartClick ==
  /\ appPage.sessionId = "" /\ ~appPage.starting
  /\ appPage' = handleStartMonitoring(appPage)
  /\ OthersUnchanged

StartOk ==
  /\ appPage.starting
  /\ appPage' = startPolling([appPage EXCEPT !.starting = FALSE,
                                              !.sessionId = "s1"])
  /\ OthersUnchanged

StartFail ==
  /\ appPage.starting
  /\ appPage' = [appPage EXCEPT !.starting = FALSE]
  /\ OthersUnchanged

\* The backend makes the next clip of the session.
BackendClip ==
  /\ appPage.sessionId # ""
  /\ Len(appPage.backend) < MaxBackend
  /\ appPage' = [appPage EXCEPT !.backend = Append(@, Len(@) + 1)]
  /\ OthersUnchanged

\* The interval fires: pollForUpdates sends its request.
ConsoleTick ==
  \E n \in appPage.polls :
    /\ Len(appPage.fetches) < MaxFetches
    /\ appPage' = [appPage EXCEPT !.fetches = Append(@, n)]
    /\ OthersUnchanged

\* The response of the first outstanding request; it is ok or it is not.
ConsoleResponse ==
  /\ appPage.fetches # <<>>
  /\ \E ok \in BOOLEAN :
       LET a == [appPage EXCEPT !.fetches = Tail(@)]
           b == IF ok THEN pollForUpdates(a, Head(appPage.fetches), a.backend)
                ELSE a
       IN /\ Len(b.clips) <= MaxShown
          /\ appPage' = b
  /\ OthersUnchanged

NextConsole ==
  \/ StartClick \/ StartOk \/ StartFail
  \/ BackendClip \/ ConsoleTick \/ ConsoleResponse

SpecConsole == Init /\ [][NextConsole]_vars

\* C27: in the creator console every backend clip identifier appears at most
\* once in the clip list, whatever number of polling ticks has run.
C27_ConsoleListHasNoDuplicates == NoDup(appPage.clips)

\* C28: a failed stop-monitoring request leaves the socket and all timers of
\* the dashboard as they were: no teardown runs and the page stays.
C28_FailedStopChangesNothing ==
  [][(mounted /\ obs'.op = "stopFail")
       => /\ mounted'
          /\ obs'.cleanups = 0
          /\ sockets' = sockets
          /\ wsRef' = wsRef
          /\ pollTimers' = pollTimers
          /\ connTimers' = connTimers
          /\ reconTimers' = reconTimers]_vars

\* C29: the dashboard has at most one status-poll interval active, and it is
\* the one pollingRef holds; a dashboard that was left has none.
C29_AtMostOnePollInterval ==
  /\ Cardinality(pollTimers) <= 1
  /\ \A t \in pollTimers : t.id = pollingRef
  /\ ~mounted => pollTimers = {}

\* The lifecycle effect ran again and the dashboard has its one interval.
C29_Witness ==
  /\ mounted
  /\ obs.cleanups > 0
  /\ Cardinality(pollTimers) = 1

\* ---- the live chat page (LiveChatPage) ----
ChatLimit == 50

MaxReceived == 53      \* chat messages the feed delivers
MaxBatch == 3          \* messages of one chat_data
MaxSwitches == 1       \* changes of sessionId while the page is shown

\* Array.prototype.slice(0, n): the first n entries.
sliceFirst(list, n) == SubSeq(list, 1, IF Len(list) < n THEN Len(list) ELSE n)

\* Array.prototype.slice(-n): the last n entries.
sliceLast(list, n) ==
  SubSeq(list, IF Len(list) < n THEN 1 ELSE Len(list) - n + 1, Len(list))

\* ws.onopen: the notice is appended.
chatOpen(c) == [c EXCEPT !.chatMessages = Append(@, 0), !.ws = "OPEN", !.op = "open"]

\* ws.onmessage with a chat_data of n messages.
chatData(c, n) ==
  LET newMessages == [i \in 1..n |-> c.received + i]
      updated == c.chatMessages \o newMessages
  IN [c EXCEPT !.chatMessages = sliceLast(updated, ChatLimit),
               !.received = @ + n,
               !.op = "chat_data"]

ChatUnchanged == UNCHANGED <<dashVars, sv, upd, auth, appPage>>

ChatOpen ==
  /\ chatPage.ws = "CONNECTING"
  /\ chatPage' = chatOpen(chatPage)
  /\ ChatUnchanged

ChatData ==
  \E n \in 0..MaxBatch :
    /\ chatPage.ws = "OPEN"
    /\ chatPage.received + n <= MaxReceived
    /\ chatPage' = chatData(chatPage, n)
    /\ ChatUnchanged

\* The connection ends or fails: ws.onclose.
ChatClose ==
  /\ chatPage.ws \in {"CONNECTING", "OPEN"}
  /\ chatPage' = [chatPage EXCEPT !.ws = "CLOSED", !.op = "close"]
  /\ ChatUnchanged

\* The page gets another sessionId: the effect closes its socket and makes
\* a new one; the state of the component stays.
ChatSwitch ==
  /\ chatPage.switches < MaxSwitches
  /\ chatPage' = [chatPage EXCEPT !.ws = "CONNECTING", !.switches = @ + 1,
                                  !.op = "switch"]
  /\ ChatUnchanged

NextChat == ChatOpen \/ ChatData \/ ChatClose \/ ChatSwitch

SpecChat == Init /\ [][NextChat]_vars

\* The chat messages of the list, without the notices.
ChatEntries == SelectSeq(chatPage.chatMessages, LAMBDA e : e # 0)

\* C30: after a chat_data message the list of the live chat page holds at
\* most 50 entries, and its chat messages are the most recently received
\* ones in arrival order: a run of consecutive arrivals that ends with the
\* latest, and all of them while fewer than 50 entries are held.
C30_ChatKeepsLastFifty ==
  chatPage.op = "chat_data"
    => /\ Len(chatPage.chatMessages) <= ChatLimit
       /\ \A i \in 1..Len(ChatEntries) :
            ChatEntries[i] = chatPage.received - Len(ChatEntries) + i
       /\ Len(chatPage.chatMessages) < ChatLimit
            => Len(ChatEntries) = chatPage.received

\* A chat_data arrived that pushed older messages out of a full list.
C30_Witness ==
  /\ chatPage.op = "chat_data"
  /\ Len(chatPage.chatMessages) = ChatLimit
  /\ chatPage.received > ChatLimit
  /\ ChatEntries[Len(ChatEntries)] = chatPage.received

====
